---------------------------- MODULE Spec2Model ----------------------------
(***************************************************************************)
(* A model of the Tuya BLE integration (custom_components/tuya_ble):       *)
(*   devices.py  the product catalog, its lookup, and the two coordinators *)
(*   sensor.py   the sensor mapping table and the sensor entities          *)
(*                                                                         *)
(* The parts share only the two tables.  A behaviour exercises one part,   *)
(* named by the variable scope:                                            *)
(*   "lookup"       get_device_product_info on any (category, product_id)  *)
(*   "coordinator"  TuyaBLECoordinator and TuyaBLEPassiveCoordinator, fed  *)
(*                  the same device callbacks and timer firings            *)
(*   "last_unlock"  a TuyaBLELastUnlockSensor and the datapoints it reads  *)
(*   "sensor"       a TuyaBLESensor and the datapoint it reads             *)
(*   "restore"      a TuyaBLESensor that is being added to the host, and   *)
(*                  the coordinator updates that reach it meanwhile        *)
(*   "setup"        async_setup_entry of the sensor platform for a device  *)
(***************************************************************************)
EXTENDS Integers, Sequences, FiniteSets, TLC

VARIABLES
    scope,             \* the part of the integration this behaviour exercises
    database_writes,   \* devices.py: the items stored into devices_database
                       \* since the module was loaded
    mapping_writes,    \* sensor.py: the items stored into mapping since the
                       \* module was loaded
    device,            \* the TuyaBLEDevice: category, product_id, address, device_id
    info,              \* the result of the last get_device_product_info(device)
    coord,             \* coordinator class -> its fields and the timers it armed
    callback,          \* the last callback the coordinators ran
    updates,           \* the argument of the last update callback
    before,            \* coord as it was when the last callback started
    awaiting,          \* a disconnect callback came, and no connect or update since
    datapoints,        \* device.datapoints: id -> datapoint or None
    now,               \* the device manager's clock (datapoint timestamps)
    recent,            \* the unlock-method datapoint id the device updated last
    unlock,            \* the TuyaBLELastUnlockSensor's fields
    sensor,            \* the TuyaBLESensor's fields and its mapping
    restore,           \* the sensor's async_added_to_hass: where it stands, and
                       \* the last sensor data the host has stored
    entities           \* the lists async_add_entities was called with

vars == <<scope, database_writes, mapping_writes, device, info, coord, callback,
          updates, before, awaiting, datapoints, now, recent, unlock, sensor,
          restore, entities>>

(***************************************************************************)
(* Python values.  None is a value of its own; every optional field holds  *)
(* either None or a record, so that the two always compare.                *)
(***************************************************************************)
None == [kind |-> "None"]

IntVal(n) == [kind |-> "int", v |-> n]

BoolVal(b) == [kind |-> "bool", v |-> b]

StrVal(s) == [kind |-> "str", v |-> s]

(***************************************************************************)
(* devices.py: the dataclasses and the catalog.                            *)
(***************************************************************************)
TuyaBLEFingerbotInfo(sw, mode, up, down, hold, rev, manual, program) ==
    [kind |-> "TuyaBLEFingerbotInfo", switch |-> sw, mode |-> mode,
     up_position |-> up, down_position |-> down, hold_time |-> hold,
     reverse_positions |-> rev, manual_control |-> manual, program |-> program]

TuyaBLELockInfo(alarm, ble, fingerprint, password) ==
    [kind |-> "TuyaBLELockInfo", alarm_lock |-> alarm, unlock_ble |-> ble,
     unlock_fingerprint |-> fingerprint, unlock_password |-> password]

TuyaBLEProductInfo(name, fingerbot, lock) ==
    [kind |-> "TuyaBLEProductInfo", name |-> name,
     manufacturer |-> "DEVICE_DEF_MANUFACTURER",
     fingerbot |-> fingerbot, lock |-> lock]

TuyaBLECategoryInfo(products) ==
    [kind |-> "TuyaBLECategoryInfo", products |-> products, info |-> None]

\* dict.fromkeys(keys, value)
fromkeys(keys, value) == [k \in keys |-> value]

SmartLockPlain == TuyaBLEProductInfo("Smart Lock", None, None)

SmartLockT8 ==
    TuyaBLEProductInfo("Smart Lock", None, TuyaBLELockInfo(21, 19, 12, 13))

CubeTouch1s ==
    TuyaBLEProductInfo("CUBETOUCH 1s",
                       TuyaBLEFingerbotInfo(1, 2, 5, 6, 3, 4, 0, 0), None)

CubeTouchII ==
    TuyaBLEProductInfo("CubeTouch II",
                       TuyaBLEFingerbotInfo(1, 2, 5, 6, 3, 4, 0, 0), None)

FingerbotPlus ==
    TuyaBLEProductInfo("Fingerbot Plus",
                       TuyaBLEFingerbotInfo(2, 8, 15, 9, 10, 11, 17, 121), None)

Fingerbot ==
    TuyaBLEProductInfo("Fingerbot",
                       TuyaBLEFingerbotInfo(2, 8, 15, 9, 10, 11, 0, 121), None)

FingerbotPlusIds == {"blliqpsj", "ndvkgsrm", "yiihr7zh", "neq16kgd"}

FingerbotIds ==
    {"ltak7e1p", "y6kttvd6", "yrnk7mnn", "nvr2rocq", "bnt7wajf", "rvdceqjh",
     "5xhbk964"}

DevicesDatabase ==
    ("co2bj" :> TuyaBLECategoryInfo(
        "59s19z5m" :> TuyaBLEProductInfo("CO2 Detector", None, None)))
    @@ ("ms" :> TuyaBLECategoryInfo(
        fromkeys({"ludzroix", "isk2p555", "yy2bmcoh"}, SmartLockPlain)
        @@ ("mqc2hevy" :> SmartLockT8)))
    @@ ("szjqr" :> TuyaBLECategoryInfo(
        ("3yqdo5yt" :> CubeTouch1s)
        @@ ("xhf790if" :> CubeTouchII)
        @@ fromkeys(FingerbotPlusIds, FingerbotPlus)
        @@ fromkeys(FingerbotIds, Fingerbot)))
    @@ ("wk" :> TuyaBLECategoryInfo(
        fromkeys({"drlajpqc", "nhj2j7su"},
                 TuyaBLEProductInfo("Thermostatic Radiator Valve", None, None))))
    @@ ("wsdcg" :> TuyaBLECategoryInfo(
        "ojzlzzsw" :> TuyaBLEProductInfo("Soil moisture sensor", None, None)))
    @@ ("znhsb" :> TuyaBLECategoryInfo(
        "cdlandip" :> TuyaBLEProductInfo("Smart water bottle", None, None)))
    @@ ("ggq" :> TuyaBLECategoryInfo(
        fromkeys({"6pahkcau", "hfgdqhho"},
                 TuyaBLEProductInfo("Irrigation computer", None, None))))
    @@ ("jtmspro" :> TuyaBLECategoryInfo(
        "hc7n0urm" :> TuyaBLEProductInfo("A1 Ultra-JM", None, None)))

\* the dict devices_database: the literal, and what was stored into it since
devices_database == database_writes @@ DevicesDatabase

\* dict.get(key): the value stored under key, else None
dictGet(d, key) == IF key \in DOMAIN d THEN d[key] ELSE None

\* a faulty lookup: the product id is searched in every category
get_product_info_any_category(db, category, product_id) ==
    LET holders == {c \in DOMAIN db : product_id \in DOMAIN db[c].products}
    IN  IF holders # {}
        THEN db[CHOOSE c \in holders : TRUE].products[product_id]
        ELSE None

get_product_info_by_ids(db, category, product_id) ==
    LET category_info == dictGet(db, category)
    IN  IF category_info # None
        THEN LET product_info == dictGet(category_info.products, product_id)
             IN  IF product_info # None
                 THEN product_info
                 ELSE category_info.info
        ELSE None

get_device_product_info(db, dev) ==
    get_product_info_by_ids(db, dev.category, dev.product_id)

(***************************************************************************)
(* sensor.py: the mapping dataclasses and the mapping table.  A float is   *)
(* held in tenths (1.0 is FloatVal(10)); a list is a sequence; a dict      *)
(* whose order matters is a sequence of its items.                         *)
(***************************************************************************)
FloatVal(tenths) == [kind |-> "float", tenths |-> tenths]

\* a callable, by name
Function(name) == [kind |-> "function", name |-> name]

SensorEntityDescription(key, icon, device_class, options) ==
    [kind |-> "SensorEntityDescription", key |-> key, icon |-> icon,
     device_class |-> device_class, options |-> options]

TuyaBLESensorMapping(dp_id, description) ==
    [kind |-> "TuyaBLESensorMapping", dp_id |-> dp_id,
     description |-> description, force_add |-> TRUE, dp_type |-> None,
     getter |-> None, coefficient |-> FloatVal(10), icons |-> None,
     is_available |-> None]

Item(key, value) == [key |-> key, value |-> value]

TuyaBLELastUnlockSensorMapping(unlock_methods) ==
    [kind |-> "TuyaBLELastUnlockSensorMapping",
     unlock_methods |-> unlock_methods,
     description |-> SensorEntityDescription(
         "last_unlock_method", StrVal("mdi:account-lock-open"), None, None)]

BatteryDescription ==
    SensorEntityDescription("battery", None, StrVal("BATTERY"), None)

TuyaBLEBatteryMapping(dp_id) == TuyaBLESensorMapping(dp_id, BatteryDescription)

TemperatureDescription ==
    SensorEntityDescription("temperature", None, StrVal("TEMPERATURE"), None)

TuyaBLETemperatureMapping(dp_id) ==
    TuyaBLESensorMapping(dp_id, TemperatureDescription)

TuyaBLECategorySensorMapping(products) ==
    [kind |-> "TuyaBLECategorySensorMapping", products |-> products,
     mapping |-> None]

BatteryStateOptions ==
    <<"BATTERY_STATE_LOW", "BATTERY_STATE_NORMAL", "BATTERY_STATE_HIGH">>

BatteryStateIcons ==
    <<"mdi:battery-alert", "mdi:battery-50", "mdi:battery-check">>

AlarmLockOptions == <<"wrong_finger", "wrong_password", "low_battery">>

UnlockMethodsT8 ==
    <<Item(19, "ble"), Item(12, "fingerprint"), Item(62, "phone_remote"),
      Item(13, "password"), Item(14, "dynamic"), Item(55, "temporary"),
      Item(63, "voice_remote")>>

MappingCo2 ==
    <<[TuyaBLESensorMapping(1, SensorEntityDescription(
           "carbon_dioxide_alarm", StrVal("mdi:molecule-co2"), StrVal("ENUM"),
           <<"CO2_LEVEL_ALARM", "CO2_LEVEL_NORMAL">>))
         EXCEPT !.is_available = Function("is_co2_alarm_enabled")],
      TuyaBLESensorMapping(2, SensorEntityDescription(
          "carbon_dioxide", None, StrVal("CO2"), None)),
      TuyaBLEBatteryMapping(15),
      TuyaBLETemperatureMapping(18),
      TuyaBLESensorMapping(19, SensorEntityDescription(
          "humidity", None, StrVal("HUMIDITY"), None))>>

MappingSmartLock ==
    <<TuyaBLESensorMapping(21, SensorEntityDescription(
          "alarm_lock", None, StrVal("ENUM"), AlarmLockOptions)),
      TuyaBLEBatteryMapping(8)>>

MappingSmartLockT8 ==
    <<TuyaBLESensorMapping(21, SensorEntityDescription(
          "alarm_lock", StrVal("mdi:alert"), StrVal("ENUM"), AlarmLockOptions)),
      TuyaBLEBatteryMapping(8),
      TuyaBLELastUnlockSensorMapping(UnlockMethodsT8)>>

MappingA1Ultra ==
    <<TuyaBLESensorMapping(21, SensorEntityDescription(
          "alarm_lock", StrVal("mdi:alarm-light-outline"), StrVal("ENUM"),
          <<"low_battery", "power_off">>))>>

MappingCubeTouch ==
    <<[TuyaBLESensorMapping(7, SensorEntityDescription(
           "battery_charging", None, StrVal("ENUM"),
           <<"BATTERY_NOT_CHARGING", "BATTERY_CHARGING", "BATTERY_CHARGED">>))
         EXCEPT !.icons = <<"mdi:battery", "mdi:power-plug-battery",
                            "mdi:battery-check">>],
      TuyaBLEBatteryMapping(8)>>

MappingFingerbot == <<TuyaBLEBatteryMapping(12)>>

MappingSoil ==
    <<[TuyaBLETemperatureMapping(1) EXCEPT !.coefficient = FloatVal(100)],
      TuyaBLESensorMapping(2, SensorEntityDescription(
          "moisture", None, StrVal("MOISTURE"), None)),
      [TuyaBLESensorMapping(3, SensorEntityDescription(
           "battery_state", StrVal("mdi:battery"), StrVal("ENUM"),
           BatteryStateOptions))
         EXCEPT !.icons = BatteryStateIcons],
      TuyaBLEBatteryMapping(4)>>

MappingPlant ==
    <<[TuyaBLESensorMapping(5, SensorEntityDescription(
           "temp_current", None, StrVal("TEMPERATURE"), None))
         EXCEPT !.coefficient = FloatVal(100)],
      TuyaBLESensorMapping(3, SensorEntityDescription(
          "moisture", None, StrVal("MOISTURE"), None)),
      [TuyaBLESensorMapping(14, SensorEntityDescription(
           "battery_state", StrVal("mdi:battery"), StrVal("ENUM"),
           BatteryStateOptions))
         EXCEPT !.icons = BatteryStateIcons],
      TuyaBLESensorMapping(15, SensorEntityDescription(
          "battery_percentage", None, StrVal("BATTERY"), None))>>

MappingBottle ==
    <<TuyaBLETemperatureMapping(101),
      TuyaBLESensorMapping(102, SensorEntityDescription(
          "water_intake", None, StrVal("WATER"), None)),
      [TuyaBLESensorMapping(104, SensorEntityDescription(
           "battery", None, StrVal("BATTERY"), None))
         EXCEPT !.getter = Function("battery_enum_getter")]>>

MappingIrrigation ==
    <<TuyaBLEBatteryMapping(11),
      TuyaBLESensorMapping(6, SensorEntityDescription(
          "time_left", None, StrVal("DURATION"), None))>>

MappingIrrigationSGW02 ==
    <<TuyaBLEBatteryMapping(11),
      TuyaBLESensorMapping(111, SensorEntityDescription(
          "use_time_z1", None, StrVal("DURATION"), None)),
      TuyaBLESensorMapping(110, SensorEntityDescription(
          "use_time_z2", None, StrVal("DURATION"), None))>>

SensorMapping ==
    ("co2bj" :> TuyaBLECategorySensorMapping("59s19z5m" :> MappingCo2))
    @@ ("ms" :> TuyaBLECategorySensorMapping(
        fromkeys({"ludzroix", "isk2p555", "yy2bmcoh"}, MappingSmartLock)
        @@ ("mqc2hevy" :> MappingSmartLockT8)))
    @@ ("jtmspro" :> TuyaBLECategorySensorMapping("hc7n0urm" :> MappingA1Ultra))
    @@ ("szjqr" :> TuyaBLECategorySensorMapping(
        fromkeys({"3yqdo5yt", "xhf790if"}, MappingCubeTouch)
        @@ fromkeys(FingerbotPlusIds, MappingFingerbot)
        @@ fromkeys(FingerbotIds, MappingFingerbot)))
    @@ ("wsdcg" :> TuyaBLECategorySensorMapping("ojzlzzsw" :> MappingSoil))
    @@ ("zwjcy" :> TuyaBLECategorySensorMapping("gvygg3m8" :> MappingPlant))
    @@ ("znhsb" :> TuyaBLECategorySensorMapping("cdlandip" :> MappingBottle))
    @@ ("ggq" :> TuyaBLECategorySensorMapping(
        ("6pahkcau" :> MappingIrrigation)
        @@ ("hfgdqhho" :> MappingIrrigationSGW02)))

\* the dict mapping: the literal, and what was stored into it since
mapping == mapping_writes @@ SensorMapping

rssi_mapping ==
    [TuyaBLESensorMapping(-1, SensorEntityDescription(
         "signal_strength", None, StrVal("SIGNAL_STRENGTH"), None))
       EXCEPT !.getter = Function("rssi_getter")]

\* a list, as a value that compares with None
List(items) == [kind |-> "list", items |-> items]

\* dict.get(key), of a dict of lists
dictGetList(d, key) == IF key \in DOMAIN d THEN List(d[key]) ELSE None

get_mapping_by_device(map, dev) ==
    LET category == dictGet(map, dev.category)
    IN  IF category # None /\ category.products # None
        THEN LET product_mapping ==
                     dictGetList(category.products, dev.product_id)
             IN  IF product_mapping # None
                 THEN product_mapping.items
                 ELSE IF category.mapping # None
                 THEN category.mapping
                 ELSE <<>>
        ELSE <<>>

(***************************************************************************)
(* Python's conversions and comparisons, on the values a datapoint holds:  *)
(* None, bool, int, float and str.  A str that came from a device is a     *)
(* sequence of characters (TextVal); a str written in the source is a      *)
(* StrVal.                                                                 *)
(***************************************************************************)
TextVal(chars) == [kind |-> "str", chars |-> chars]

Digits == <<"0", "1", "2", "3", "4", "5", "6", "7", "8", "9">>

IsDigit(ch) == \E d \in 1..10 : Digits[d] = ch

DigitValue(ch) == (CHOOSE d \in 1..10 : Digits[d] = ch) - 1

RECURSIVE StripLeft(_)

StripLeft(chars) ==
    IF chars # <<>> /\ Head(chars) = " " THEN StripLeft(Tail(chars)) ELSE chars

RECURSIVE StripRight(_)

StripRight(chars) ==
    IF chars # <<>> /\ chars[Len(chars)] = " "
    THEN StripRight(SubSeq(chars, 1, Len(chars) - 1))
    ELSE chars

\* a decimal literal: digits, single underscores between them
IsDecimal(chars) ==
    /\ chars # <<>>
    /\ IsDigit(chars[1]) /\ IsDigit(chars[Len(chars)])
    /\ \A i \in 1..Len(chars) : IsDigit(chars[i]) \/ chars[i] = "_"
    /\ \A i \in 1..(Len(chars) - 1) : ~(chars[i] = "_" /\ chars[i + 1] = "_")

RECURSIVE DecimalValue(_)

DecimalValue(chars) ==
    IF chars = <<>>
    THEN 0
    ELSE LET front == SubSeq(chars, 1, Len(chars) - 1)
             last == chars[Len(chars)]
         IN  IF last = "_"
             THEN DecimalValue(front)
             ELSE 10 * DecimalValue(front) + DigitValue(last)

Returned(n) == [ok |-> TRUE, v |-> n]

Raised(error) == [ok |-> FALSE, error |-> error]

\* int(str)
ParseInt(chars) ==
    LET body == StripRight(StripLeft(chars))
        signed == body # <<>> /\ Head(body) \in {"+", "-"}
        digits == IF signed THEN Tail(body) ELSE body
    IN  IF IsDecimal(digits)
        THEN Returned(IF signed /\ Head(body) = "-"
                      THEN 0 - DecimalValue(digits)
                      ELSE DecimalValue(digits))
        ELSE Raised("ValueError")

\* int(float): towards zero
Truncate(tenths) ==
    IF tenths >= 0 THEN tenths \div 10 ELSE 0 - ((0 - tenths) \div 10)

\* int(value)
PyInt(value) ==
    IF value.kind = "int" THEN Returned(value.v)
    ELSE IF value.kind = "bool" THEN Returned(IF value.v THEN 1 ELSE 0)
    ELSE IF value.kind = "float" THEN Returned(Truncate(value.tenths))
    ELSE IF value.kind = "str" THEN ParseInt(value.chars)
    ELSE Raised("TypeError")

RECURSIVE NaturalChars(_)

NaturalChars(n) ==
    IF n < 10
    THEN <<Digits[n + 1]>>
    ELSE NaturalChars(n \div 10) \o <<Digits[(n % 10) + 1]>>

\* str(value), of an int or a str
PyStr(value) ==
    IF value.kind = "int"
    THEN TextVal(IF value.v < 0
                 THEN <<"-">> \o NaturalChars(0 - value.v)
                 ELSE NaturalChars(value.v))
    ELSE value

\* isinstance(value, (int, float)): bool is a subclass of int
IsNumber(value) == value.kind \in {"int", "bool", "float"}

\* a number, in tenths
Tenths(value) ==
    IF value.kind = "int" THEN 10 * value.v
    ELSE IF value.kind = "bool" THEN (IF value.v THEN 10 ELSE 0)
    ELSE value.tenths

\* a == b
PyEq(a, b) ==
    IF IsNumber(a) /\ IsNumber(b) THEN Tenths(a) = Tenths(b) ELSE a = b

\* a faulty division: the coefficient is taken for 1.0
TrueDiv_by_one(value, coefficient) == FloatVal(Tenths(value))

\* value / coefficient
TrueDiv(value, coefficient) ==
    FloatVal((Tenths(value) * 10) \div coefficient.tenths)

(***************************************************************************)
(* sensor.py: the sensor entities.  A datapoint of the device manager is   *)
(* its id, type, value and timestamp; a type of "no attribute" stands for  *)
(* a datapoint object without that attribute.  device.datapoints is the    *)
(* dict of the datapoints the device has reported.                         *)
(***************************************************************************)
DataPoint(id, type, value, timestamp) ==
    [id |-> id, type |-> type, value |-> value, timestamp |-> timestamp]

\* a faulty write: the state is written twice
async_write_ha_state_twice(s) == [s EXCEPT !.writes = @ + 2]

\* Entity.async_write_ha_state()
async_write_ha_state(s) == [s EXCEPT !.writes = @ + 1]

\* a faulty getter: the level is not scaled
battery_enum_getter_unscaled(s, dps) ==
    LET datapoint == dictGet(dps, 104)
    IN  IF datapoint # None
        THEN LET value == PyInt(datapoint.value)
             IN  IF value.ok
                 THEN [s EXCEPT !.native_value = IntVal(value.v)]
                 ELSE [s EXCEPT !.native_value = None]
        ELSE s

\* a faulty getter: a value that does not convert leaves the old level
battery_enum_getter_keeps_on_error(s, dps) ==
    LET datapoint == dictGet(dps, 104)
    IN  IF datapoint # None
        THEN LET value == PyInt(datapoint.value)
             IN  IF value.ok
                 THEN [s EXCEPT !.native_value = IntVal(value.v * 20)]
                 ELSE s
        ELSE s

battery_enum_getter(s, dps) ==
    LET datapoint == dictGet(dps, 104)
    IN  IF datapoint # None
        THEN LET value == PyInt(datapoint.value)
             IN  IF value.ok
                 THEN [s EXCEPT !.native_value = IntVal(value.v * 20)]
                 ELSE [s EXCEPT !.native_value = None]
        ELSE s

rssi_getter(s, dev) == [s EXCEPT !.native_value = dev.rssi]

call_getter(s, dps, dev) ==
    IF s.mapping.getter = Function("battery_enum_getter")
    THEN battery_enum_getter(s, dps)
    ELSE rssi_getter(s, dev)

\* the value as a list index
Index(value) == IF value.kind = "bool" THEN (IF value.v THEN 1 ELSE 0) ELSE value.v

\* a faulty handler: a negative value indexes from the end of the lists
TuyaBLESensor_handle_enum_value_from_end(s, value) ==
    LET options == s.mapping.description.options
        icons == s.mapping.icons
        At(list) == IF Index(value) < 0
                    THEN list[Len(list) + Index(value) + 1]
                    ELSE list[Index(value) + 1]
        s1 == IF options # None /\ 0 - Len(options) <= Index(value)
                 /\ Index(value) < Len(options)
              THEN [s EXCEPT !.native_value = StrVal(At(options))]
              ELSE [s EXCEPT !.native_value = value]
    IN  IF icons # None /\ 0 - Len(icons) <= Index(value)
           /\ Index(value) < Len(icons)
        THEN [s1 EXCEPT !.icon = StrVal(At(icons))]
        ELSE s1

TuyaBLESensor_handle_enum_value(s, value) ==
    LET options == s.mapping.description.options
        icons == s.mapping.icons
        s1 == IF options # None /\ 0 <= Index(value)
                 /\ Index(value) < Len(options)
              THEN [s EXCEPT !.native_value = StrVal(options[Index(value) + 1])]
              ELSE [s EXCEPT !.native_value = value]
    IN  IF icons # None /\ 0 <= Index(value) /\ Index(value) < Len(icons)
        THEN [s1 EXCEPT !.icon = StrVal(icons[Index(value) + 1])]
        ELSE s1

TuyaBLESensor_handle_coordinator_update(s0, dps, dev) ==
    LET s == [s0 EXCEPT !.writes = 0]
    IN  IF s.mapping.getter # None
        THEN async_write_ha_state(call_getter(s, dps, dev))
        ELSE
        LET datapoint == dictGet(dps, s.mapping.dp_id)
        IN  IF datapoint = None \/ datapoint.value = None
            THEN s
            ELSE
            LET value == datapoint.value
                s1 == IF IsNumber(value) /\ datapoint.type # "no attribute"
                      THEN IF datapoint.type = "DT_ENUM"
                           THEN TuyaBLESensor_handle_enum_value(s, value)
                           ELSE IF datapoint.type = "DT_VALUE"
                           THEN LET result == TrueDiv(value, s.mapping.coefficient)
                                IN  IF s.mapping.description.device_class
                                           = StrVal("BATTERY")
                                    THEN [s EXCEPT !.native_value =
                                             IntVal(Truncate(result.tenths))]
                                    ELSE [s EXCEPT !.native_value = result]
                           ELSE [s EXCEPT !.native_value = value]
                      ELSE IF value.kind = "bool"
                      THEN [s EXCEPT !.native_value =
                               IntVal(IF value.v THEN 1 ELSE 0)]
                      ELSE [s EXCEPT !.native_value = PyStr(value)]
            IN  async_write_ha_state(s1)

\* TuyaBLESensor.__init__
NewSensor(map) ==
    [mapping |-> map, native_value |-> None,
     native_unit_of_measurement |-> None, icon |-> None, writes |-> 0]

\* what async_get_last_sensor_data() returns when the host has stored data
SensorExtraStoredData(native_value, native_unit_of_measurement) ==
    [kind |-> "SensorExtraStoredData", native_value |-> native_value,
     native_unit_of_measurement |-> native_unit_of_measurement]

\* TuyaBLESensor.async_added_to_hass, from the return of
\* super().async_added_to_hass() to the await of the last sensor data (or
\* to the return, when there is a native value)
TuyaBLESensor_async_added_to_hass_check(s, r) ==
    IF s.native_value # None
    THEN [r EXCEPT !.pc = "done"]
    ELSE [r EXCEPT !.pc = "await last_sensor_data"]

\* TuyaBLESensor.async_added_to_hass, after the await of the last sensor data
TuyaBLESensor_async_added_to_hass_apply(s, r) ==
    IF r.last_sensor_data # None
    THEN async_write_ha_state(
             [s EXCEPT
                 !.native_value = r.last_sensor_data.native_value,
                 !.native_unit_of_measurement =
                     r.last_sensor_data.native_unit_of_measurement,
                 !.writes = 0])
    ELSE s

(* class TuyaBLELastUnlockSensor *)

\* TuyaBLELastUnlockSensor.__init__
NewLastUnlockSensor(map) ==
    [unlock_methods |-> map.unlock_methods, native_value |-> None,
     extra_state_attributes |-> <<>>,
     last_values |-> [i \in 1..Len(map.unlock_methods) |-> None],
     writes |-> 0]

\* the loop over unlock_methods.keys(), from item i on; acc holds
\* last_method, last_value, last_time and _last_values (by position of the
\* key in the dict)
RECURSIVE LastUnlock_loop(_, _, _, _)

LastUnlock_loop(methods, dps, acc, i) ==
    IF i > Len(methods)
    THEN acc
    ELSE LET dp_id == methods[i].key
             dp == dictGet(dps, dp_id)
             acc1 ==
                 IF dp_id \in DOMAIN dps /\ dp # None
                 THEN LET dp_value == dp.value
                          dp_time == dp.timestamp
                      IN  IF dp_time # None
                          THEN IF acc.last_time = None
                                  \/ dp_time.v > acc.last_time.v
                               THEN [acc EXCEPT
                                        !.last_time = dp_time,
                                        !.last_method = StrVal(methods[i].value),
                                        !.last_value = dp_value]
                               ELSE acc
                          ELSE IF dp_value # None
                          THEN IF ~PyEq(acc.last_values[i], dp_value)
                               THEN [acc EXCEPT
                                        !.last_method = StrVal(methods[i].value),
                                        !.last_value = dp_value,
                                        !.last_values[i] = dp_value]
                               ELSE acc
                          ELSE acc
                 ELSE acc
         IN  LastUnlock_loop(methods, dps, acc1, i + 1)

LastUnlock_handle_coordinator_update(s0, dps) ==
    LET s == [s0 EXCEPT !.writes = 0]
        acc == LastUnlock_loop(
                   s.unlock_methods, dps,
                   [last_method |-> None, last_value |-> None,
                    last_time |-> None, last_values |-> s.last_values], 1)
        s1 == [s EXCEPT !.last_values = acc.last_values]
    IN  IF acc.last_method # None
        THEN async_write_ha_state(
                 [s1 EXCEPT
                     !.native_value = acc.last_method,
                     !.extra_state_attributes =
                         [method |-> acc.last_method, value |-> acc.last_value]])
        ELSE async_write_ha_state(s1)

(* async_setup_entry *)

\* device.datapoints.has_id(id, type)
has_id(dps, id, type) ==
    id \in DOMAIN dps /\ (type = None \/ dps[id].type = type)

\* an entity in the list handed to async_add_entities
Entity(class, fields) == [class |-> class, fields |-> fields]

\* a faulty loop: force_add is not looked at
RECURSIVE setup_loop_has_id_only(_, _, _)

setup_loop_has_id_only(found, mappings, dps) ==
    IF mappings = <<>>
    THEN found
    ELSE LET map == Head(mappings)
             found1 ==
                 IF map.kind = "TuyaBLELastUnlockSensorMapping"
                 THEN Append(found, Entity("TuyaBLELastUnlockSensor",
                                           NewLastUnlockSensor(map)))
                 ELSE IF has_id(dps, map.dp_id, map.dp_type)
                 THEN Append(found, Entity("TuyaBLESensor", NewSensor(map)))
                 ELSE found
         IN  setup_loop_has_id_only(found1, Tail(mappings), dps)

\* the loop over mappings
RECURSIVE setup_loop(_, _, _)

setup_loop(found, mappings, dps) ==
    IF mappings = <<>>
    THEN found
    ELSE LET map == Head(mappings)
             found1 ==
                 IF map.kind = "TuyaBLELastUnlockSensorMapping"
                 THEN Append(found, Entity("TuyaBLELastUnlockSensor",
                                           NewLastUnlockSensor(map)))
                 ELSE IF map.force_add \/ has_id(dps, map.dp_id, map.dp_type)
                 THEN Append(found, Entity("TuyaBLESensor", NewSensor(map)))
                 ELSE found
         IN  setup_loop(found1, Tail(mappings), dps)

\* async_setup_entry: the list it hands to async_add_entities
async_setup_entry(map, dev, dps) ==
    LET mappings == get_mapping_by_device(map, dev)
    IN  setup_loop(<<Entity("TuyaBLESensor", NewSensor(rssi_mapping))>>,
                   mappings, dps)

(***************************************************************************)
(* devices.py: the coordinators.  A coordinator is its two fields, the     *)
(* delayed callbacks of its own that the host holds pending (timers), and  *)
(* what the running callback has emitted so far (out): listener            *)
(* notifications and bus events, in order.                                 *)
(***************************************************************************)
MaxTimers == 3

\* the cancel handles async_call_later can return
Handles == [kind : {"timer"}, id : 1..MaxTimers]

Listeners == [kind |-> "listeners"]

BusEvent(event_type, data) ==
    [kind |-> "bus", event_type |-> event_type, data |-> data]

\* DataUpdateCoordinator.async_update_listeners()
async_update_listeners(c) == [c EXCEPT !.out = Append(@, Listeners)]

\* hass.bus.fire(event_type, data)
bus_fire(c, event_type, data) ==
    [c EXCEPT !.out = Append(@, BusEvent(event_type, data))]

\* calling the handle async_call_later returned: the timer, if still
\* pending, is removed; calling it again does nothing
cancel(c, h) == [c EXCEPT !.timers = @ \ {h}]

FreeHandles(c) ==
    {h \in Handles : h \notin c.timers /\ h # c.unsub_disconnect}

\* async_call_later(hass, delay, action): a timer not handed out before
\* (a handle nothing refers to any more may name the new timer)
async_call_later(c) ==
    CHOOSE h \in FreeHandles(c) : \A g \in FreeHandles(c) : h.id <= g.id

NewCoordinator ==
    [disconnected |-> TRUE, unsub_disconnect |-> None, timers |-> {},
     out |-> <<>>]

FingerbotData(dev) ==
    [CONF_ADDRESS |-> dev.address, CONF_DEVICE_ID |-> dev.device_id]

LockData(dev, event, value) ==
    [CONF_ADDRESS |-> dev.address, CONF_DEVICE_ID |-> dev.device_id,
     event |-> event, value |-> value]

(* class TuyaBLECoordinator *)

\* a faulty handler: the stored handle is not called
Coordinator_async_handle_connect_no_cancel(c) ==
    IF c.disconnected
    THEN async_update_listeners([c EXCEPT !.disconnected = FALSE])
    ELSE c

Coordinator_async_handle_connect(c) ==
    LET c1 == IF c.unsub_disconnect # None
              THEN cancel(c, c.unsub_disconnect)
              ELSE c
    IN  IF c1.disconnected
        THEN async_update_listeners([c1 EXCEPT !.disconnected = FALSE])
        ELSE c1

RECURSIVE Coordinator_fingerbot_loop(_, _, _, _)

Coordinator_fingerbot_loop(c, dev, inf, ups) ==
    IF ups = <<>>
    THEN c
    ELSE LET update == Head(ups)
             c1 == IF update.id = inf.fingerbot.switch
                      /\ update.changed_by_device
                   THEN bus_fire(c, "FINGERBOT_BUTTON_EVENT", FingerbotData(dev))
                   ELSE c
         IN  Coordinator_fingerbot_loop(c1, dev, inf, Tail(ups))

RECURSIVE Coordinator_lock_loop_any_origin(_, _, _, _)

\* a faulty loop: changed_by_device is not looked at
Coordinator_lock_loop_any_origin(c, dev, inf, ups) ==
    IF ups = <<>>
    THEN c
    ELSE LET update == Head(ups)
             c1 == IF update.id = inf.lock.alarm_lock
                   THEN bus_fire(c, "DOMAIN_lock_alarm_event",
                                 LockData(dev, "alarm_lock", update.value))
                   ELSE IF update.id = inf.lock.unlock_ble
                   THEN bus_fire(c, "DOMAIN_lock_unlock_ble_event",
                                 LockData(dev, "unlock_ble", update.value))
                   ELSE IF update.id = inf.lock.unlock_fingerprint
                   THEN bus_fire(c, "DOMAIN_lock_unlock_fingerprint_event",
                                 LockData(dev, "unlock_fingerprint", update.value))
                   ELSE IF update.id = inf.lock.unlock_password
                   THEN bus_fire(c, "DOMAIN_lock_unlock_password_event",
                                 LockData(dev, "unlock_password", update.value))
                   ELSE c
         IN  Coordinator_lock_loop_any_origin(c1, dev, inf, Tail(ups))

RECURSIVE Coordinator_lock_loop(_, _, _, _)

Coordinator_lock_loop(c, dev, inf, ups) ==
    IF ups = <<>>
    THEN c
    ELSE LET update == Head(ups)
             c1 == IF ~update.changed_by_device
                   THEN c
                   ELSE IF update.id = inf.lock.alarm_lock
                   THEN bus_fire(c, "DOMAIN_lock_alarm_event",
                                 LockData(dev, "alarm_lock", update.value))
                   ELSE IF update.id = inf.lock.unlock_ble
                   THEN bus_fire(c, "DOMAIN_lock_unlock_ble_event",
                                 LockData(dev, "unlock_ble", update.value))
                   ELSE IF update.id = inf.lock.unlock_fingerprint
                   THEN bus_fire(c, "DOMAIN_lock_unlock_fingerprint_event",
                                 LockData(dev, "unlock_fingerprint", update.value))
                   ELSE IF update.id = inf.lock.unlock_password
                   THEN bus_fire(c, "DOMAIN_lock_unlock_password_event",
                                 LockData(dev, "unlock_password", update.value))
                   ELSE c
         IN  Coordinator_lock_loop(c1, dev, inf, Tail(ups))

Coordinator_async_handle_update(c, dev, db, ups) ==
    LET c1 == Coordinator_async_handle_connect(c)
        c2 == async_update_listeners(c1)
        inf == get_device_product_info(db, dev)
    IN  IF inf = None
        THEN c2
        ELSE LET c3 == IF inf.fingerbot # None
                          /\ inf.fingerbot.manual_control # 0
                       THEN Coordinator_fingerbot_loop(c2, dev, inf, ups)
                       ELSE c2
             IN  IF inf.lock # None
                 THEN Coordinator_lock_loop(c3, dev, inf, ups)
                 ELSE c3

Coordinator_set_disconnected(c) ==
    async_update_listeners(
        [c EXCEPT !.disconnected = TRUE, !.unsub_disconnect = None])

\* a faulty handler: the coordinator is disconnected at once, with no timer
Coordinator_async_handle_disconnect_at_once(c) ==
    [c EXCEPT !.disconnected = TRUE]

Coordinator_async_handle_disconnect(c) ==
    IF c.unsub_disconnect = None
    THEN LET h == async_call_later(c)
         IN  [c EXCEPT !.unsub_disconnect = h, !.timers = @ \cup {h}]
    ELSE c

(* class TuyaBLEPassiveCoordinator *)

Passive_async_handle_connect(c) ==
    LET c1 == IF c.unsub_disconnect # None
              THEN cancel(c, c.unsub_disconnect)
              ELSE c
    IN  IF c1.disconnected
        THEN async_update_listeners([c1 EXCEPT !.disconnected = FALSE])
        ELSE c1

RECURSIVE Passive_fingerbot_loop_any_origin(_, _, _, _)

\* a faulty loop: changed_by_device is not looked at
Passive_fingerbot_loop_any_origin(c, dev, inf, ups) ==
    IF ups = <<>>
    THEN c
    ELSE LET update == Head(ups)
             c1 == IF update.id = inf.fingerbot.switch
                   THEN bus_fire(c, "FINGERBOT_BUTTON_EVENT", FingerbotData(dev))
                   ELSE c
         IN  Passive_fingerbot_loop_any_origin(c1, dev, inf, Tail(ups))

RECURSIVE Passive_fingerbot_loop(_, _, _, _)

Passive_fingerbot_loop(c, dev, inf, ups) ==
    IF ups = <<>>
    THEN c
    ELSE LET update == Head(ups)
             c1 == IF update.id = inf.fingerbot.switch
                      /\ update.changed_by_device
                   THEN bus_fire(c, "FINGERBOT_BUTTON_EVENT", FingerbotData(dev))
                   ELSE c
         IN  Passive_fingerbot_loop(c1, dev, inf, Tail(ups))

RECURSIVE Passive_lock_loop(_, _, _, _)

Passive_lock_loop(c, dev, inf, ups) ==
    IF ups = <<>>
    THEN c
    ELSE LET update == Head(ups)
             c1 == IF update.changed_by_device
                   THEN IF update.id = inf.lock.alarm_lock
                        THEN bus_fire(c, "DOMAIN_lock_alarm_event",
                                      LockData(dev, "alarm_lock", update.value))
                        ELSE IF update.id = inf.lock.unlock_ble
                        THEN bus_fire(c, "DOMAIN_lock_unlock_ble_event",
                                      LockData(dev, "unlock_ble", update.value))
                        ELSE IF update.id = inf.lock.unlock_fingerprint
                        THEN bus_fire(c, "DOMAIN_lock_unlock_fingerprint_event",
                                      LockData(dev, "unlock_fingerprint",
                                               update.value))
                        ELSE IF update.id = inf.lock.unlock_password
                        THEN bus_fire(c, "DOMAIN_lock_unlock_password_event",
                                      LockData(dev, "unlock_password",
                                               update.value))
                        ELSE c
                   ELSE c
         IN  Passive_lock_loop(c1, dev, inf, Tail(ups))

\* a faulty handler: the listeners are notified only through the connect path
Passive_async_handle_update_quiet(c, dev, db, ups) ==
    LET c2 == Passive_async_handle_connect(c)
        inf == get_device_product_info(db, dev)
        c3 == IF inf # None /\ inf.fingerbot # None
                 /\ inf.fingerbot.manual_control # 0
              THEN Passive_fingerbot_loop(c2, dev, inf, ups)
              ELSE c2
    IN  IF inf # None /\ inf.lock # None
        THEN Passive_lock_loop(c3, dev, inf, ups)
        ELSE c3

Passive_async_handle_update(c, dev, db, ups) ==
    LET c1 == Passive_async_handle_connect(c)
        c2 == async_update_listeners(c1)
        inf == get_device_product_info(db, dev)
        c3 == IF inf # None /\ inf.fingerbot # None
                 /\ inf.fingerbot.manual_control # 0
              THEN Passive_fingerbot_loop(c2, dev, inf, ups)
              ELSE c2
    IN  IF inf # None /\ inf.lock # None
        THEN Passive_lock_loop(c3, dev, inf, ups)
        ELSE c3

\* a faulty callback: the listeners are not notified
Passive_set_disconnected_quiet(c) ==
    [c EXCEPT !.disconnected = TRUE, !.unsub_disconnect = None]

Passive_set_disconnected(c) ==
    async_update_listeners(
        [c EXCEPT !.disconnected = TRUE, !.unsub_disconnect = None])

\* a faulty handler: a timer is armed whether or not one is stored
Passive_async_handle_disconnect_rearm(c) ==
    LET h == async_call_later(c)
    IN  [c EXCEPT !.unsub_disconnect = h, !.timers = @ \cup {h}]

Passive_async_handle_disconnect(c) ==
    IF c.unsub_disconnect = None
    THEN LET h == async_call_later(c)
         IN  [c EXCEPT !.unsub_disconnect = h, !.timers = @ \cup {h}]
    ELSE c

(***************************************************************************)
(* The environment of the lookup and of the coordinators: the device, the  *)
(* device manager's callbacks and the host's timers.                       *)
(***************************************************************************)
TuyaBLEDevice(category, product_id) ==
    [category |-> category, product_id |-> product_id,
     address |-> "AA:BB:CC:DD:EE:FF", device_id |-> "device_id",
     rssi |-> IntVal(-60)]

CatalogCategories ==
    {"co2bj", "ms", "szjqr", "wk", "wsdcg", "znhsb", "ggq", "jtmspro"}

CatalogProductIds ==
    {"59s19z5m", "ludzroix", "isk2p555", "yy2bmcoh", "mqc2hevy", "3yqdo5yt",
     "xhf790if", "drlajpqc", "nhj2j7su", "ojzlzzsw", "cdlandip", "6pahkcau",
     "hfgdqhho", "hc7n0urm"} \cup FingerbotPlusIds \cup FingerbotIds

\* the (category, product_id) pairs looked up: every pair of the catalog,
\* every catalog key paired with a key of another category, a pair only the
\* sensor mapping knows, and keys no table knows
LookupDevices ==
    {TuyaBLEDevice(c, p) : c \in CatalogCategories \cup {"zwjcy", "unknown"},
                           p \in CatalogProductIds \cup {"gvygg3m8", "unknown"}}

\* the devices the coordinators serve: one of every kind of descriptor
CoordinatorDevices ==
    {TuyaBLEDevice("ms", "mqc2hevy"), TuyaBLEDevice("ms", "ludzroix"),
     TuyaBLEDevice("szjqr", "blliqpsj"), TuyaBLEDevice("szjqr", "ltak7e1p"),
     TuyaBLEDevice("szjqr", "3yqdo5yt"), TuyaBLEDevice("szjqr", "xhf790if"),
     TuyaBLEDevice("szjqr", "unknown"), TuyaBLEDevice("unknown", "blliqpsj")}

TuyaBLEDataPoint(id, value, changed_by_device) ==
    [id |-> id, value |-> value, changed_by_device |-> changed_by_device]

\* the datapoints a lock reports: its four event datapoints, changed by the
\* device or not, and its battery level
LockUpdates ==
    {TuyaBLEDataPoint(21, 1, TRUE), TuyaBLEDataPoint(19, 0, TRUE),
     TuyaBLEDataPoint(12, 1, TRUE), TuyaBLEDataPoint(13, 0, TRUE),
     TuyaBLEDataPoint(13, 1, FALSE), TuyaBLEDataPoint(8, 1, TRUE)}

\* the datapoints a fingerbot reports: the switch (1 or 2), changed by the
\* device or not
SwitchUpdates ==
    {TuyaBLEDataPoint(1, 1, TRUE), TuyaBLEDataPoint(1, 0, FALSE),
     TuyaBLEDataPoint(2, 1, TRUE), TuyaBLEDataPoint(2, 0, FALSE)}

\* the datapoints an update callback of device dev can carry
UpdatePool(dev) ==
    IF dev.product_id = "mqc2hevy" THEN LockUpdates ELSE SwitchUpdates

MaxUpdates == 2

UpdateLists(dev) == UNION {[1..n -> UpdatePool(dev)] : n \in 0..MaxUpdates}

Coordinators == {"TuyaBLECoordinator", "TuyaBLEPassiveCoordinator"}

\* a callback starts with nothing emitted
Enter(c) == [c EXCEPT !.out = <<>>]

handle_connect(k, c) ==
    IF k = "TuyaBLECoordinator"
    THEN Coordinator_async_handle_connect(c)
    ELSE Passive_async_handle_connect(c)

handle_update(k, c, dev, db, ups) ==
    IF k = "TuyaBLECoordinator"
    THEN Coordinator_async_handle_update(c, dev, db, ups)
    ELSE Passive_async_handle_update(c, dev, db, ups)

handle_disconnect(k, c) ==
    IF k = "TuyaBLECoordinator"
    THEN Coordinator_async_handle_disconnect(c)
    ELSE Passive_async_handle_disconnect(c)

set_disconnected(k, c) ==
    IF k = "TuyaBLECoordinator"
    THEN Coordinator_set_disconnected(c)
    ELSE Passive_set_disconnected(c)

(***************************************************************************)
(* The environment of the sensor entities: the device manager stores what  *)
(* the device reports in device.datapoints, stamped with its clock, and    *)
(* the coordinator then notifies its listeners.                            *)
(***************************************************************************)
MaxTime == 2

MaxRaw == 3

\* the unlock-method datapoints the lock reports
UnlockReportIds == {19, 12}

UnlockValues == {IntVal(1), IntVal(2)}

\* the devices whose TuyaBLESensor entities are exercised
SensorDevices ==
    {TuyaBLEDevice("znhsb", "cdlandip"), TuyaBLEDevice("wsdcg", "ojzlzzsw"),
     TuyaBLEDevice("ms", "mqc2hevy")}

\* the mappings async_setup_entry makes a TuyaBLESensor of
SensorMappingsOf(map, dev) ==
    LET mappings == get_mapping_by_device(map, dev)
    IN  {rssi_mapping}
        \cup {mappings[i] : i \in {j \in DOMAIN mappings :
                 mappings[j].kind = "TuyaBLESensorMapping"}}

LastUnlockMappingsOf(map, dev) ==
    LET mappings == get_mapping_by_device(map, dev)
    IN  {mappings[i] : i \in {j \in DOMAIN mappings :
            mappings[j].kind = "TuyaBLELastUnlockSensorMapping"}}

RawTexts == {<<"3">>, <<"-", "2">>, <<" ", "1">>, <<"a">>}

\* the values a reported datapoint can hold
RawValues ==
    {None, BoolVal(TRUE), BoolVal(FALSE)}
    \cup {IntVal(n) : n \in (0 - MaxRaw)..MaxRaw}
    \cup {TextVal(chars) : chars \in RawTexts}

DataPointTypes == {"DT_BOOL", "DT_VALUE", "DT_ENUM", "no attribute"}

\* dict[key] = value
dictSet(d, key, value) == (key :> value) @@ d

InitTables ==
    /\ database_writes = <<>>
    /\ mapping_writes = <<>>

InitLookup ==
    /\ scope = "lookup"
    /\ device \in LookupDevices

InitCoordinator ==
    /\ scope = "coordinator"
    /\ device \in CoordinatorDevices

InitLastUnlock ==
    /\ scope = "last_unlock"
    /\ device = TuyaBLEDevice("ms", "mqc2hevy")
    /\ \E map \in LastUnlockMappingsOf(mapping, device) :
          unlock = NewLastUnlockSensor(map)
    /\ sensor = None

InitSensor ==
    /\ scope = "sensor"
    /\ device \in SensorDevices
    /\ \E map \in SensorMappingsOf(mapping, device) :
          sensor = NewSensor(map)
    /\ unlock = None

\* the last sensor data the host can have stored for the sensor
LastSensorData ==
    {None, SensorExtraStoredData(None, None),
     SensorExtraStoredData(FloatVal(215), StrVal("unit"))}

\* the values the device reports while the sensor is being added
RestoreValues == {None} \cup {IntVal(n) : n \in 1..MaxRaw}

\* async_added_to_hass has been called and awaits
\* super().async_added_to_hass(), which subscribes the sensor to the
\* coordinator
InitRestore ==
    /\ scope = "restore"
    /\ device = TuyaBLEDevice("wsdcg", "ojzlzzsw")
    /\ \E map \in SensorMappingsOf(mapping, device) :
          sensor = NewSensor(map)
    /\ \E data \in LastSensorData :
          restore = [pc |-> "await super", last_sensor_data |-> data]
    /\ unlock = None

\* the devices the sensor platform is set up for: one of every list of the
\* mapping, a product the mapping does not know in a category it knows, a
\* category it does not know, and one only the catalog knows
SetupDevices ==
    {TuyaBLEDevice(c, p) :
        c \in {"co2bj", "ms", "jtmspro", "szjqr", "wsdcg", "zwjcy", "znhsb",
               "ggq", "wk", "unknown"},
        p \in {"59s19z5m", "ludzroix", "mqc2hevy", "hc7n0urm", "3yqdo5yt",
               "blliqpsj", "ojzlzzsw", "gvygg3m8", "cdlandip", "6pahkcau",
               "hfgdqhho", "drlajpqc", "unknown"}}

\* the datapoints the device has when the platform is set up: none, or some
\* of the battery level (8), the alarm (21) and an unlock method (19)
SetupDatapoints ==
    {[id \in ids |-> DataPoint(id, "DT_VALUE", IntVal(1), None)] :
        ids \in SUBSET {8, 19, 21}}

InitSetup ==
    /\ scope = "setup"
    /\ device \in SetupDevices
    /\ datapoints \in SetupDatapoints
    /\ unlock = None /\ sensor = None /\ restore = None

Init ==
    /\ InitTables
    /\ \/ /\ InitLookup \/ InitCoordinator
          /\ unlock = None /\ sensor = None /\ restore = None
       \/ InitLastUnlock /\ restore = None
       \/ InitSensor /\ restore = None
       \/ InitRestore
       \/ InitSetup
    /\ entities = <<>>
    /\ info = None
    /\ coord = [k \in Coordinators |-> NewCoordinator]
    /\ callback = "none"
    /\ updates = <<>>
    /\ before = coord
    /\ awaiting = FALSE
    /\ scope # "setup" => datapoints = <<>>
    /\ now = 0
    /\ recent = None

\* a faulty lookup: a miss is remembered in the catalog
Lookup_caching ==
    /\ scope = "lookup"
    /\ info' = get_device_product_info(devices_database, device)
    /\ database_writes' =
           IF info' = None
           THEN dictSet(database_writes, device.category,
                        TuyaBLECategoryInfo(<<>>))
           ELSE database_writes
    /\ callback' = "lookup"
    /\ UNCHANGED <<scope, mapping_writes, device, coord, updates, before,
                   awaiting, datapoints, now, recent, unlock, sensor, restore,
                   entities>>

\* get_device_product_info(device), called on its own
Lookup ==
    /\ scope = "lookup"
    /\ info' = get_device_product_info(devices_database, device)
    /\ callback' = "lookup"
    /\ UNCHANGED <<scope, database_writes, mapping_writes, device, coord, updates,
                   before, awaiting, datapoints, now, recent, unlock, sensor,
                   restore, entities>>

\* the device manager calls the connected callbacks
Connect ==
    /\ scope = "coordinator"
    /\ before' = [k \in Coordinators |-> Enter(coord[k])]
    /\ coord' = [k \in Coordinators |-> handle_connect(k, Enter(coord[k]))]
    /\ callback' = "connect"
    /\ updates' = <<>>
    /\ awaiting' = FALSE
    /\ UNCHANGED <<scope, database_writes, mapping_writes, device, info, datapoints,
                   now, recent, unlock, sensor, restore, entities>>

\* the device manager calls the update callbacks with the changed datapoints
Update(ups) ==
    /\ scope = "coordinator"
    /\ before' = [k \in Coordinators |-> Enter(coord[k])]
    /\ coord' = [k \in Coordinators |->
                    handle_update(k, Enter(coord[k]), device,
                                  devices_database, ups)]
    /\ info' = get_device_product_info(devices_database, device)
    /\ callback' = "update"
    /\ updates' = ups
    /\ awaiting' = FALSE
    /\ UNCHANGED <<scope, database_writes, mapping_writes, device, datapoints, now,
                   recent, unlock, sensor, restore, entities>>

\* the device manager calls the disconnected callbacks; a coordinator that
\* arms a timer needs a handle to name it
Disconnect ==
    /\ scope = "coordinator"
    /\ \A k \in Coordinators :
          coord[k].unsub_disconnect = None => FreeHandles(coord[k]) # {}
    /\ before' = [k \in Coordinators |-> Enter(coord[k])]
    /\ coord' = [k \in Coordinators |-> handle_disconnect(k, Enter(coord[k]))]
    /\ callback' = "disconnect"
    /\ updates' = <<>>
    /\ awaiting' = TRUE
    /\ UNCHANGED <<scope, database_writes, mapping_writes, device, info, datapoints,
                   now, recent, unlock, sensor, restore, entities>>

\* the host runs the delayed callback h of every coordinator that has it
\* pending, SET_DISCONNECTED_DELAY after it was armed
TimerFire(h) ==
    /\ scope = "coordinator"
    /\ \E k \in Coordinators : h \in coord[k].timers
    /\ before' = [k \in Coordinators |-> Enter(coord[k])]
    /\ coord' = [k \in Coordinators |->
                    IF h \in coord[k].timers
                    THEN set_disconnected(
                             k, [Enter(coord[k]) EXCEPT !.timers = @ \ {h}])
                    ELSE Enter(coord[k])]
    /\ callback' = "timer"
    /\ updates' = <<>>
    /\ UNCHANGED <<scope, database_writes, mapping_writes, device, info, awaiting,
                   datapoints, now, recent, unlock, sensor, restore, entities>>

Fire == \E h \in Handles : TimerFire(h)

\* the device manager's clock advances
Tick ==
    /\ scope = "last_unlock"
    /\ now < MaxTime
    /\ now' = now + 1
    /\ UNCHANGED <<scope, database_writes, mapping_writes, device, info, coord,
                   callback, updates, before, awaiting, datapoints, recent,
                   unlock, sensor, restore, entities>>

\* the lock reports unlock-method datapoint id: the device manager stores it,
\* with or without a timestamp, and the coordinator notifies the sensor
UnlockReport(id, value, stamped) ==
    /\ scope = "last_unlock"
    /\ datapoints' = dictSet(datapoints, id,
                             DataPoint(id, "DT_VALUE", value,
                                       IF stamped THEN IntVal(now) ELSE None))
    /\ recent' = IntVal(id)
    /\ unlock' = LastUnlock_handle_coordinator_update(unlock, datapoints')
    /\ UNCHANGED <<scope, database_writes, mapping_writes, device, info, coord,
                   callback, updates, before, awaiting, now, sensor, restore,
                   entities>>

\* the coordinator notifies the sensor with no unlock-method datapoint
\* changed (a connect, a timer, an update of other datapoints)
UnlockNotify ==
    /\ scope = "last_unlock"
    /\ unlock' = LastUnlock_handle_coordinator_update(unlock, datapoints)
    /\ UNCHANGED <<scope, database_writes, mapping_writes, device, info, coord,
                   callback, updates, before, awaiting, datapoints, now, recent,
                   sensor, restore, entities>>

\* the device reports the sensor's datapoint: the device manager stores it
\* and the coordinator notifies the sensor
SensorReport(type, value) ==
    /\ scope = "sensor"
    /\ sensor.mapping.dp_id >= 0
    /\ datapoints' = dictSet(datapoints, sensor.mapping.dp_id,
                             DataPoint(sensor.mapping.dp_id, type, value, None))
    /\ sensor' = TuyaBLESensor_handle_coordinator_update(
                     sensor, datapoints', device)
    /\ UNCHANGED <<scope, database_writes, mapping_writes, device, info, coord,
                   callback, updates, before, awaiting, now, recent, unlock,
                   restore, entities>>

\* the coordinator notifies the sensor with its datapoint unchanged
SensorNotify ==
    /\ scope = "sensor"
    /\ sensor' = TuyaBLESensor_handle_coordinator_update(
                     sensor, datapoints, device)
    /\ UNCHANGED <<scope, database_writes, mapping_writes, device, info, coord,
                   callback, updates, before, awaiting, datapoints, now, recent,
                   unlock, restore, entities>>

\* super().async_added_to_hass() returns and async_added_to_hass runs on to
\* its next await, or returns
RestoreCheck ==
    /\ scope = "restore"
    /\ restore.pc = "await super"
    /\ restore' = TuyaBLESensor_async_added_to_hass_check(sensor, restore)
    /\ UNCHANGED <<scope, database_writes, mapping_writes, device, info, coord,
                   callback, updates, before, awaiting, datapoints, now, recent,
                   unlock, sensor, entities>>

\* async_get_last_sensor_data() returns and async_added_to_hass runs to its
\* end
RestoreApply ==
    /\ scope = "restore"
    /\ restore.pc = "await last_sensor_data"
    /\ sensor' = TuyaBLESensor_async_added_to_hass_apply(sensor, restore)
    /\ restore' = [restore EXCEPT !.pc = "done"]
    /\ UNCHANGED <<scope, database_writes, mapping_writes, device, info, coord,
                   callback, updates, before, awaiting, datapoints, now, recent,
                   unlock, entities>>

\* the device reports the sensor's datapoint while or after the sensor is
\* added, and the coordinator notifies the sensor
RestoreUpdate(value) ==
    /\ scope = "restore"
    /\ datapoints' =
           IF sensor.mapping.dp_id >= 0
           THEN dictSet(datapoints, sensor.mapping.dp_id,
                        DataPoint(sensor.mapping.dp_id, "DT_VALUE", value, None))
           ELSE datapoints
    /\ sensor' = TuyaBLESensor_handle_coordinator_update(
                     sensor, datapoints', device)
    /\ UNCHANGED <<scope, database_writes, mapping_writes, device, info, coord,
                   callback, updates, before, awaiting, now, recent, unlock,
                   restore, entities>>

\* the host sets up the sensor platform of the config entry
Setup ==
    /\ scope = "setup"
    /\ entities = <<>>
    /\ entities' = Append(entities,
                          async_setup_entry(mapping, device, datapoints))
    /\ UNCHANGED <<scope, database_writes, mapping_writes, device, info, coord,
                   callback, updates, before, awaiting, datapoints, now, recent,
                   unlock, sensor, restore>>

Next ==
    \/ Lookup
    \/ Connect
    \/ \E ups \in UpdateLists(device) : Update(ups)
    \/ Disconnect
    \/ Fire
    \/ Tick
    \/ \E id \in UnlockReportIds, value \in UnlockValues, stamped \in BOOLEAN :
          UnlockReport(id, value, stamped)
    \/ UnlockNotify
    \/ \E type \in DataPointTypes, value \in RawValues :
          SensorReport(type, value)
    \/ SensorNotify
    \/ RestoreCheck
    \/ RestoreApply
    \/ \E value \in RestoreValues : RestoreUpdate(value)
    \/ Setup

Spec == Init /\ [][Next]_vars

\* a delayed callback that is armed and not cancelled is run by the host
FairSpec == Spec /\ WF_vars(Fire)

(***************************************************************************)
(* Properties of the lookup and of the coordinators.                       *)
(***************************************************************************)
IsListeners(e) == e.kind = "listeners"

IsBus(e) == e.kind = "bus"

IsButton(e) == e.kind = "bus" /\ e.event_type = "FINGERBOT_BUTTON_EVENT"

IsLockEvent(e) == e.kind = "bus" /\ e.event_type # "FINGERBOT_BUTTON_EVENT"

Count(seq, Test(_)) == Len(SelectSeq(seq, Test))

\* C1: get_product_info_by_ids returns the descriptor stored under a
\* (category, product_id) pair of the catalog, the category's fallback info
\* (None throughout the catalog) for a known category with an unknown product
\* id, and None for an unknown category.
C1_LookupReturnsStoredDescriptor ==
    callback \in {"lookup", "update"} =>
        LET c == device.category
            p == device.product_id
        IN  /\ (c \in DOMAIN DevicesDatabase
                /\ p \in DOMAIN DevicesDatabase[c].products)
               => info = DevicesDatabase[c].products[p]
            /\ (c \in DOMAIN DevicesDatabase
                /\ p \notin DOMAIN DevicesDatabase[c].products)
               => info = DevicesDatabase[c].info /\ info = None
            /\ c \notin DOMAIN DevicesDatabase => info = None

\* the lock of the catalog that has a lock descriptor is looked up
C1_Witness ==
    /\ callback = "lookup"
    /\ device.category = "ms" /\ device.product_id = "mqc2hevy"
    /\ info = SmartLockT8

\* C2: after any sequence of coordinator updates the last-unlock sensor
\* reports the label that unlock_methods maps to the unlock-method datapoint
\* reported most recently, with equal timestamps, without timestamps and for
\* a repeated unlock by the same method with the same value.
C2_ReportsMostRecentMethod ==
    (scope = "last_unlock" /\ recent # None) =>
        \E i \in DOMAIN unlock.unlock_methods :
            /\ unlock.unlock_methods[i].key = recent.v
            /\ unlock.native_value = StrVal(unlock.unlock_methods[i].value)

\* the sensor of the bottle's battery level, whose getter is
\* battery_enum_getter
IsBatteryEnumSensor ==
    scope = "sensor" /\ sensor.mapping.getter = Function("battery_enum_getter")

\* C3: whenever datapoint 104 is present with an integer value the native
\* value of the battery sensor is 20 times that value; the text "3" counts
\* as 3 and gives 60.
C3_BatteryEnumScaled ==
    (IsBatteryEnumSensor /\ dictGet(datapoints, 104) # None) =>
        LET value == datapoints[104].value
        IN  /\ value.kind = "int" => sensor.native_value = IntVal(20 * value.v)
            /\ value = TextVal(<<"3">>) => sensor.native_value = IntVal(60)

\* the bottle has reported level 3 and the sensor shows 60
C3_Witness ==
    /\ IsBatteryEnumSensor
    /\ dictGet(datapoints, 104) # None
    /\ datapoints[104].value = IntVal(3)
    /\ sensor.native_value = IntVal(60)

\* a value int() raises on: None (TypeError), or a text with a character
\* that no integer literal has (ValueError)
Unconvertible(value) ==
    \/ value = None
    \/ /\ value.kind = "str"
       /\ \E i \in DOMAIN value.chars :
              ~IsDigit(value.chars[i])
              /\ value.chars[i] \notin {"+", "-", " ", "_"}

C5_AtMostOneTimerPending ==
    \A k \in Coordinators :
        /\ Cardinality(coord[k].timers) <= 1
        /\ (callback = "disconnect" /\ before[k].timers # {})
           => coord[k].timers = before[k].timers

\* a disconnect callback has arrived while a timer was pending
C5_Witness ==
    /\ callback = "disconnect"
    /\ \A k \in Coordinators :
          before[k].timers # {} /\ Cardinality(coord[k].timers) = 1

\* C6 as claimed: every update callback gives exactly one listener
\* notification, whatever the connected state.
C6_OneNotificationPerUpdate ==
    callback = "update" =>
        \A k \in Coordinators :
            /\ Count(coord[k].out, IsListeners) = 1
            /\ ~coord[k].disconnected
            /\ info = None => Count(coord[k].out, IsBus) = 0

\* C6 as the code has it: an update callback notifies the listeners once when
\* the coordinator was connected and twice when it was disconnected (once for
\* the connection, once for the update); after it the coordinator is
\* connected; without a product descriptor it fires no bus event.
C6_UpdateNotifiesListeners ==
    callback = "update" =>
        \A k \in Coordinators :
            /\ Count(coord[k].out, IsListeners)
                   = (IF before[k].disconnected THEN 2 ELSE 1)
            /\ ~coord[k].disconnected
            /\ info = None => Count(coord[k].out, IsBus) = 0

\* an update callback of a device without descriptor, once on a connected and
\* once on a disconnected coordinator
C6_Witness ==
    /\ callback = "update"
    /\ info = None
    /\ \A k \in Coordinators :
          ~before[k].disconnected /\ coord[k].out = <<Listeners>>

\* C7: an update callback fires one button event for each update whose id is
\* the product's fingerbot switch and whose changed_by_device is true, if the
\* product has a fingerbot descriptor with manual_control # 0, and none
\* otherwise; no other callback fires one.
C7_ButtonEvents ==
    \A k \in Coordinators :
        Count(coord[k].out, IsButton) =
            (IF /\ callback = "update"
                /\ info # None
                /\ info.fingerbot # None
                /\ info.fingerbot.manual_control # 0
             THEN Cardinality({i \in DOMAIN updates :
                                  /\ updates[i].id = info.fingerbot.switch
                                  /\ updates[i].changed_by_device})
             ELSE 0)

\* a Fingerbot Plus reports its switch twice by the device and the button
\* event is fired twice
C7_Witness ==
    /\ callback = "update"
    /\ info = FingerbotPlus
    /\ updates = <<TuyaBLEDataPoint(2, 1, TRUE), TuyaBLEDataPoint(2, 1, TRUE)>>
    /\ \A k \in Coordinators : Count(coord[k].out, IsButton) = 2

\* the bus event an update of a lock gives, by the first field of the lock
\* descriptor its id equals
LockEventFor(dev, lock, update) ==
    IF update.id = lock.alarm_lock
    THEN BusEvent("DOMAIN_lock_alarm_event",
                  LockData(dev, "alarm_lock", update.value))
    ELSE IF update.id = lock.unlock_ble
    THEN BusEvent("DOMAIN_lock_unlock_ble_event",
                  LockData(dev, "unlock_ble", update.value))
    ELSE IF update.id = lock.unlock_fingerprint
    THEN BusEvent("DOMAIN_lock_unlock_fingerprint_event",
                  LockData(dev, "unlock_fingerprint", update.value))
    ELSE BusEvent("DOMAIN_lock_unlock_password_event",
                  LockData(dev, "unlock_password", update.value))

LockIds(lock) ==
    {lock.alarm_lock, lock.unlock_ble, lock.unlock_fingerprint,
     lock.unlock_password}

\* C8: for a product with a lock descriptor an update callback fires, in the
\* order of the update list, one lock event for each update with
\* changed_by_device whose id is one of the four lock datapoints, carrying
\* the update's value; nothing else fires a lock event.
C8_LockEvents ==
    \A k \in Coordinators :
        LET fired == SelectSeq(coord[k].out, IsLockEvent)
        IN  IF callback = "update" /\ info # None /\ info.lock # None
            THEN LET Reported(u) ==
                         u.changed_by_device /\ u.id \in LockIds(info.lock)
                     reported == SelectSeq(updates, Reported)
                 IN  fired = [i \in 1..Len(reported) |->
                                 LockEventFor(device, info.lock, reported[i])]
            ELSE fired = <<>>

\* the lock reports an unlock over BLE and then an alarm, and the two events
\* are fired in that order
C8_Witness ==
    /\ callback = "update"
    /\ updates = <<TuyaBLEDataPoint(19, 0, TRUE), TuyaBLEDataPoint(21, 1, TRUE)>>
    /\ \A k \in Coordinators :
          SelectSeq(coord[k].out, IsLockEvent) =
              <<BusEvent("DOMAIN_lock_unlock_ble_event",
                         LockData(device, "unlock_ble", 0)),
                BusEvent("DOMAIN_lock_alarm_event",
                         LockData(device, "alarm_lock", 1))>>

\* C9: devices_database and mapping are, in every state, what they were when
\* the modules were loaded, so that a lookup after any sequence of callbacks
\* returns what it returns on the tables as loaded.
C9_TablesReadOnly ==
    /\ devices_database = DevicesDatabase
    /\ mapping = SensorMapping
    /\ callback \in {"lookup", "update"}
       => info = get_product_info_by_ids(DevicesDatabase, device.category,
                                         device.product_id)

\* the lock is looked up by an update callback that follows a connect and a
\* disconnect
C9_Witness ==
    /\ callback = "update"
    /\ \A k \in Coordinators :
          ~before[k].disconnected /\ before[k].unsub_disconnect # None
    /\ info = SmartLockT8
    /\ devices_database = DevicesDatabase

\* C10: after a disconnect callback that no connect or update callback
\* follows, the coordinator eventually reports connected = False.
C10_DisconnectEventuallyReported ==
    awaiting ~> (~awaiting \/ \A k \in Coordinators : coord[k].disconnected)

\* C11: a connect or update callback cancels the timer a disconnect callback
\* armed, so that no timer is pending unless a disconnect callback came and
\* no connect or update callback since; after the connect or update callback
\* the coordinator is connected, and stays so until the next disconnect
\* callback.
C11_Debounce ==
    \A k \in Coordinators :
        /\ ~awaiting => coord[k].timers = {}
        /\ callback \in {"connect", "update"} => ~coord[k].disconnected

\* a connect callback has come to a connected coordinator with a timer
\* pending, and has cancelled it
C11_Witness ==
    /\ callback = "connect"
    /\ \A k \in Coordinators :
          /\ ~before[k].disconnected /\ before[k].timers # {}
          /\ ~coord[k].disconnected /\ coord[k].timers = {}

\* C12: the coordinator starts disconnected; it becomes connected only in a
\* connect or update callback and disconnected only when the delayed
\* callback runs; the disconnect callback leaves the flag as it is and
\* notifies no listener; every change of the flag comes with a listener
\* notification.
C12_ConnectedFlag ==
    /\ \A k \in Coordinators : coord[k].disconnected
    /\ [][\A k \in Coordinators :
            /\ (coord[k].disconnected /\ ~coord'[k].disconnected)
               => callback' \in {"connect", "update"}
            /\ (~coord[k].disconnected /\ coord'[k].disconnected)
               => callback' = "timer"
            /\ callback' = "disconnect"
               => /\ coord'[k].disconnected = coord[k].disconnected
                  /\ coord'[k].out = <<>>
            /\ coord'[k].disconnected # coord[k].disconnected
               => Count(coord'[k].out, IsListeners) >= 1]_vars

\* the delayed callback has run on a connected coordinator: it is
\* disconnected and the listeners were notified
C12_Witness ==
    /\ callback = "timer"
    /\ \A k \in Coordinators :
          /\ ~before[k].disconnected /\ coord[k].disconnected
          /\ coord[k].out = <<Listeners>>

\* C13: the stored cancel handle is not None exactly when the delayed
\* callback it names is pending.
C13_HandleIffTimerPending ==
    \A k \in Coordinators :
        /\ coord[k].unsub_disconnect # None
           <=> coord[k].timers # {}
        /\ coord[k].unsub_disconnect # None
           => coord[k].unsub_disconnect \in coord[k].timers

\* a sensor without getter, which reads the datapoint mapping.dp_id
IsDatapointSensor == scope = "sensor" /\ sensor.mapping.getter = None

\* C14: a coordinator update of a sensor without getter whose datapoint is
\* absent or holds None leaves native value and icon as they were and
\* writes no state; any other update of it writes the state once.
C14_NullChecks ==
    [][IsDatapointSensor =>
          LET datapoint == dictGet(datapoints', sensor.mapping.dp_id)
          IN  IF datapoint = None \/ datapoint.value = None
              THEN /\ sensor'.native_value = sensor.native_value
                   /\ sensor'.icon = sensor.icon
                   /\ sensor'.writes = 0
              ELSE sensor'.writes = 1]_vars

\* the datapoint of a sensor that shows a value has been reported as None:
\* the value stays and no state is written
C14_Witness ==
    /\ IsDatapointSensor
    /\ dictGet(datapoints, sensor.mapping.dp_id) # None
    /\ datapoints[sensor.mapping.dp_id].value = None
    /\ sensor.native_value # None
    /\ sensor.writes = 0

\* n / 10, towards zero
TenthOf(n) == IF n >= 0 THEN n \div 10 ELSE 0 - ((0 - n) \div 10)

C16_EnumValue ==
    [][(IsDatapointSensor /\ dictGet(datapoints', sensor.mapping.dp_id) # None) =>
          LET datapoint == datapoints'[sensor.mapping.dp_id]
              v == datapoint.value.v
              options == sensor.mapping.description.options
              icons == sensor.mapping.icons
          IN  (datapoint.type = "DT_ENUM" /\ datapoint.value.kind = "int") =>
                  /\ sensor'.native_value =
                         (IF options # None /\ 0 <= v /\ v < Len(options)
                          THEN StrVal(options[v + 1])
                          ELSE IntVal(v))
                  /\ sensor'.icon =
                         (IF icons # None /\ 0 <= v /\ v < Len(icons)
                          THEN StrVal(icons[v + 1])
                          ELSE sensor.icon)]_vars

\* a sensor with options and icons that showed an icon has reported -1: the
\* sensor shows -1 and the icon it had
C16_Witness ==
    /\ IsDatapointSensor
    /\ sensor.mapping.description.options # None
    /\ sensor.mapping.icons # None
    /\ dictGet(datapoints, sensor.mapping.dp_id) # None
    /\ datapoints[sensor.mapping.dp_id].type = "DT_ENUM"
    /\ datapoints[sensor.mapping.dp_id].value = IntVal(-1)
    /\ sensor.native_value = IntVal(-1)
    /\ sensor.icon = StrVal(sensor.mapping.icons[2])

\* the labels of the sensor's unlock_methods
UnlockLabels ==
    {StrVal(unlock.unlock_methods[i].value) : i \in DOMAIN unlock.unlock_methods}

\* C17: after every step of the last-unlock sensor its native value is None
\* or a label of unlock_methods; a native value that is not None does not
\* become None; when it is not None the attribute 'method' equals it; and a
\* coordinator update with the datapoints as they were at the update before
\* leaves native value and attributes as they were and writes the state.
C17_LastUnlockInvariants ==
    [][scope = "last_unlock" =>
          /\ unlock'.native_value = None \/ unlock'.native_value \in UnlockLabels
          /\ unlock.native_value # None => unlock'.native_value # None
          /\ unlock'.native_value # None
             => unlock'.extra_state_attributes.method = unlock'.native_value
          /\ (datapoints' = datapoints /\ now' = now)
             => /\ unlock'.native_value = unlock.native_value
                /\ unlock'.extra_state_attributes = unlock.extra_state_attributes
                /\ unlock'.writes = 1]_vars

\* C18: fed the same callbacks and timer firings for the same device, the two
\* coordinators hold the same flag, handle and timers after every step and
\* have emitted the same listener notifications and bus events in the same
\* order.
C18_CoordinatorsEquivalent ==
    coord["TuyaBLECoordinator"] = coord["TuyaBLEPassiveCoordinator"]

\* the lock has reported an alarm and an unlock by password after a
\* disconnect, and both coordinators have notified and fired the same
C18_Witness ==
    /\ callback = "update"
    /\ updates = <<TuyaBLEDataPoint(21, 1, TRUE), TuyaBLEDataPoint(13, 0, TRUE)>>
    /\ \A k \in Coordinators :
          /\ before[k].timers # {}
          /\ Len(coord[k].out) = 3
    /\ coord["TuyaBLECoordinator"] = coord["TuyaBLEPassiveCoordinator"]

\* C20: a sensor whose datapoint holds a boolean shows the integer 0 or 1,
\* whatever the type of the datapoint.
C20_BoolAsInt ==
    (IsDatapointSensor /\ dictGet(datapoints, sensor.mapping.dp_id) # None) =>
        LET value == datapoints[sensor.mapping.dp_id].value
        IN  value.kind = "bool" =>
                sensor.native_value = IntVal(IF value.v THEN 1 ELSE 0)

\* C19: no step of async_added_to_hass changes a native value that is not
\* None, whenever the coordinator update that set it came.
C19_RestoreKeepsDeviceValue ==
    [][(scope = "restore" /\ restore' # restore /\ sensor.native_value # None)
          => sensor'.native_value = sensor.native_value]_vars

\* the sensor mappings of a product that are of the given kind
MappingsOfKind(c, p, kind) ==
    LET mappings == get_mapping_by_device(mapping, TuyaBLEDevice(c, p))
    IN  {mappings[i] : i \in {j \in DOMAIN mappings : mappings[j].kind = kind}}

\* the two tables agree on the products: every (category, product_id) with
\* a sensor mapping has a product descriptor
TablesAgreeOnProducts ==
    \A c \in DOMAIN mapping :
        \A p \in DOMAIN mapping[c].products :
            get_product_info_by_ids(devices_database, c, p) # None

\* the two tables agree on the locks: the four ids of a lock descriptor are
\* the datapoint of the product's alarm sensor and the keys of 'ble',
\* 'fingerprint' and 'password' in its last-unlock table
TablesAgreeOnLocks ==
    \A c \in DOMAIN devices_database :
        \A p \in DOMAIN devices_database[c].products :
            LET lock == devices_database[c].products[p].lock
            IN  lock # None =>
                    /\ \E m \in MappingsOfKind(c, p, "TuyaBLESensorMapping") :
                           /\ m.description.key = "alarm_lock"
                           /\ m.dp_id = lock.alarm_lock
                    /\ \E m \in MappingsOfKind(
                                    c, p, "TuyaBLELastUnlockSensorMapping") :
                           LET Has(key, label) ==
                                   \E i \in DOMAIN m.unlock_methods :
                                       m.unlock_methods[i] = Item(key, label)
                           IN  /\ Has(lock.unlock_ble, "ble")
                               /\ Has(lock.unlock_fingerprint, "fingerprint")
                               /\ Has(lock.unlock_password, "password")

\* C21: devices_database and mapping agree, on the products and on the
\* datapoint ids of the locks.
C21_TablesAgree == TablesAgreeOnProducts /\ TablesAgreeOnLocks

\* the list the claim expects get_mapping_by_device to return: the product's
\* list, else the category's fallback list, else the empty list
ExpectedMappings(dev) ==
    LET c == dev.category
        p == dev.product_id
    IN  IF c \in DOMAIN mapping /\ p \in DOMAIN mapping[c].products
        THEN mapping[c].products[p]
        ELSE IF c \in DOMAIN mapping /\ mapping[c].mapping # None
        THEN mapping[c].mapping
        ELSE <<>>

IsLastUnlockMapping(map) == map.kind = "TuyaBLELastUnlockSensorMapping"

\* the entity the claim expects for a mapping that yields one
ExpectedEntity(map) ==
    IF IsLastUnlockMapping(map)
    THEN Entity("TuyaBLELastUnlockSensor", NewLastUnlockSensor(map))
    ELSE Entity("TuyaBLESensor", NewSensor(map))

\* the device is one the mapping does not list
IsUnknownDevice(dev) ==
    \/ dev.category \notin DOMAIN mapping
    \/ dev.product_id \notin DOMAIN mapping[dev.category].products

\* C22: async_setup_entry calls async_add_entities once, with the
\* signal-strength sensor followed, in mapping order, by one entity per
\* mapping of the device's list (the product's, else the category's fallback,
\* else none) that is a last-unlock mapping, is forced or has its datapoint on
\* the device: a last-unlock sensor for a last-unlock mapping, a sensor for
\* another; an unknown device gets the signal-strength sensor alone.
C22_SetupEntities ==
    (scope = "setup" /\ entities # <<>>) =>
        LET Yields(map) ==
                \/ IsLastUnlockMapping(map)
                \/ map.force_add
                \/ map.dp_id \in DOMAIN datapoints
            yielding == SelectSeq(ExpectedMappings(device), Yields)
            added == entities[1]
        IN  /\ Len(entities) = 1
            /\ Len(added) = 1 + Len(yielding)
            /\ added[1] = Entity("TuyaBLESensor", NewSensor(rssi_mapping))
            /\ \A i \in DOMAIN yielding :
                   added[i + 1] = ExpectedEntity(yielding[i])
            /\ IsUnknownDevice(device) =>
                   added = <<Entity("TuyaBLESensor", NewSensor(rssi_mapping))>>

\* the platform was set up for a lock that has none of the datapoints: the
\* list ends with its last-unlock sensor, after the signal strength and the
\* forced sensors
C22_Witness ==
    /\ scope = "setup"
    /\ device = TuyaBLEDevice("ms", "mqc2hevy")
    /\ datapoints = <<>>
    /\ entities # <<>>
    /\ Len(entities[1]) = 4
    /\ entities[1][2].class = "TuyaBLESensor"
    /\ entities[1][4].class = "TuyaBLELastUnlockSensor"

=============================================================================
